---------------------------- MODULE Spec2Model ----------------------------
(***************************************************************************)
(* Spacey Snake: the move decision (FindMove), the board snapshot          *)
(* (GameState.Initialize), the flood fill (GameState.MapSpace) and the     *)
(* per-game context cache with its HTTP handlers.                          *)
(*                                                                         *)
(* The repository holds two iterations of the program: src/main.go and an  *)
(* earlier one, src/unnamed/part_000.  Definitions without a suffix model  *)
(* main.go; definitions ending in _p0 model part_000 where it differs.     *)
(***************************************************************************)
EXTENDS Integers, Sequences, FiniteSets, TLC

\* ------------------------------------------------------------------------
\* Bounds of the model
\* ------------------------------------------------------------------------
BoardW == 3
BoardH == 3
MaxLen == 3
MaxEnemyLen == 4
MaxFood == 1
MaxTurn == 2

\* ------------------------------------------------------------------------
\* Go values
\* ------------------------------------------------------------------------
\* A *ContextType: the nil pointer (a missing map entry) or an entry.  heads
\* is the Go map as a set of <<snake id, head>> pairs.
Nil == [nil |-> TRUE, color |-> "", heads |-> {}, food |-> <<>>]
Panic == "panic"
Dirs == {"left", "right", "up", "down"}
Uint16 == 65536

\* ------------------------------------------------------------------------
\* Utility functions
\* ------------------------------------------------------------------------
Abs(x) == IF x < 0 THEN -x ELSE x

ManDist(a, b) == Abs(a[1] - b[1]) + Abs(a[2] - b[2])

Translate(a, dx, dy) == <<a[1] + dx, a[2] + dy>>

\* Elements of a sequence, and membership in it
Range(q) == {q[i] : i \in 1..Len(q)}

\* The first occurrences of a sequence's elements, in order (the
\* map-guarded append loops of Initialize and UpdateContext)
RECURSIVE DedupFrom(_, _, _)
DedupFrom(q, i, acc) ==
    IF i > Len(q) THEN acc
    ELSE DedupFrom(q, i + 1,
                   IF q[i] \in Range(acc) THEN acc ELSE Append(acc, q[i]))

Dedup(q) == DedupFrom(q, 1, <<>>)

\* A registry left in the order of the request
SortByDist_Listed(q) == q

\* sort.Slice on a slice of fewer than 12 elements is an insertion sort:
\* an element moves left while it is strictly less than its left neighbour
RECURSIVE InsertByDist(_, _)
InsertByDist(sorted, e) ==
    IF sorted = <<>> THEN <<e>>
    ELSE IF e.dist < sorted[Len(sorted)].dist
         THEN Append(InsertByDist(SubSeq(sorted, 1, Len(sorted) - 1), e),
                     sorted[Len(sorted)])
         ELSE Append(sorted, e)

RECURSIVE SortFrom(_, _, _)
SortFrom(q, i, acc) ==
    IF i > Len(q) THEN acc ELSE SortFrom(q, i + 1, InsertByDist(acc, q[i]))

SortByDist(q) == SortFrom(q, 1, <<>>)

\* ------------------------------------------------------------------------
\* GameCell
\* ------------------------------------------------------------------------
EmptyCell == [content |-> 0, space |-> 0]

CellIsEmpty(c) == c.content = 0

CellIsFood(c) == c.content = 1

CellIsBody(c) == c.content > 2 /\ c.content % 3 = 0

CellIsHead(c) == c.content > 2 /\ c.content % 3 = 1

CellIsTail(c) == c.content > 2 /\ c.content % 3 = 2

CellIsSelf(c) == c.content > 2 /\ c.content \div 3 = 1

CellSnakeNo(c) == (c.content \div 3) - 1

FoodCell == [content |-> 1, space |-> 0]

BodyCell(s) == [content |-> ((s + 1) * 3) % Uint16, space |-> 0]

HeadCell(s) == [content |-> ((s + 1) * 3 + 1) % Uint16, space |-> 0]

TailCell(s) == [content |-> ((s + 1) * 3 + 2) % Uint16, space |-> 0]

\* ------------------------------------------------------------------------
\* GameState accessors
\* ------------------------------------------------------------------------
Cells(w, h) == (0..(w - 1)) \X (0..(h - 1))

IsEmpty(s, c) == CellIsEmpty(s.grid[c])

IsFood(s, c) == CellIsFood(s.grid[c])

IsBody(s, c) == CellIsBody(s.grid[c])

IsHead(s, c) == CellIsHead(s.grid[c])

IsTail(s, c) == CellIsTail(s.grid[c])

IsSelf(s, c) == CellIsSelf(s.grid[c])

SnakeNo(s, c) == CellSnakeNo(s.grid[c])

\* The neighbours a visitor is called with, in call order
VisitNeighbours(w, h, c) ==
    (IF c[1] - 1 >= 0 THEN <<[c |-> <<c[1] - 1, c[2]>>, dir |-> "left"]>> ELSE <<>>)
    \o (IF c[1] + 1 < w THEN <<[c |-> <<c[1] + 1, c[2]>>, dir |-> "right"]>> ELSE <<>>)
    \o (IF c[2] - 1 >= 0 THEN <<[c |-> <<c[1], c[2] - 1>>, dir |-> "up"]>> ELSE <<>>)
    \o (IF c[2] + 1 < h THEN <<[c |-> <<c[1], c[2] + 1>>, dir |-> "down"]>> ELSE <<>>)

\* Sum of a sequence of integers
RECURSIVE SumSeq(_)
SumSeq(q) == IF q = <<>> THEN 0 ELSE q[1] + SumSeq(Tail(q))

\* ------------------------------------------------------------------------
\* Space Mapping (flood fill with an explicit work-list)
\* ------------------------------------------------------------------------
\* A work-list with one slot per cell of the board
StackCap_Area(w, h) == h * w

\* Capacity of the work-list: make([]Coord, s.h * s.w * 4)
StackCap(w, h) == h * w * 4

\* A visitor that enters no Tail but our own
Floods_OwnTailOnly(cell) ==
    CellIsEmpty(cell) \/ CellIsFood(cell) \/ (CellIsTail(cell) /\ CellSnakeNo(cell) = 0)

\* A visitor that does not enter Tail cells
Floods_NoTail(cell) == CellIsEmpty(cell) \/ CellIsFood(cell)

\* The neighbours the visitor pushes: Empty, Food, or the Tail of any snake
Floods(cell) == CellIsEmpty(cell) \/ CellIsFood(cell) \/ CellIsTail(cell)

\* One pass of the loop "for top >= 0".  st.stack holds stack[0..top];
\* st.overflow records a push past the end of the work-list.
RECURSIVE MapLoop(_, _, _, _)
MapLoop(w, h, space, st) ==
    IF st.overflow \/ st.stack = <<>> THEN st
    ELSE LET p == st.stack[Len(st.stack)]
             rest == SubSeq(st.stack, 1, Len(st.stack) - 1)
             pcell == st.grid[p]
         IN IF pcell.space # 0
            THEN MapLoop(w, h, space, [st EXCEPT !.stack = rest])
            ELSE LET ns == VisitNeighbours(w, h, p)
                     push == SelectSeq(ns, LAMBDA n: Floods(st.grid[n.c]))
                     bound == {CellSnakeNo(st.grid[n.c]) : n \in
                                 {m \in Range(ns) :
                                     /\ ~Floods(st.grid[m.c])
                                     /\ (CellIsBody(st.grid[m.c]) \/ CellIsHead(st.grid[m.c]))}}
                     stack2 == rest \o [i \in 1..Len(push) |-> push[i].c]
                 IN MapLoop(w, h, space,
                        [stack |-> stack2,
                         grid |-> [st.grid EXCEPT ![p].space = space % Uint16],
                         count |-> st.count + 1,
                         nfood |-> st.nfood + (IF CellIsFood(pcell) THEN 1 ELSE 0),
                         snakes |-> st.snakes \cup bound,
                         overflow |-> Len(stack2) > StackCap(w, h),
                         maxTop |-> IF Len(stack2) - 1 > st.maxTop
                                    THEN Len(stack2) - 1 ELSE st.maxTop])

\* MapSpace(c, space): the tagged grid, the count it returns, and what it
\* leaves in s.spaces[space] (nfood, the snakes flagged in .snakes)
MapSpace(w, h, grid, c, space) ==
    MapLoop(w, h, space,
            [stack |-> <<c>>, grid |-> grid, count |-> 0, nfood |-> 0,
             snakes |-> {}, overflow |-> FALSE, maxTop |-> 0])

\* ------------------------------------------------------------------------
\* Initialize GameState
\* ------------------------------------------------------------------------
\* A food set that also holds the heads the entry remembers
FoodLastTurn_AndHeads(context) ==
    Range(context.food) \cup {p[2] : p \in context.heads}

\* foodLastTurn: the set built from context.food
FoodLastTurn(context) == Range(context.food)

SnakeStateOf(snake, myHead, t, foodLastTurn) ==
    LET segments == Dedup(snake.Body)
        length == Len(segments)
        head == segments[1]
    IN [ID |-> snake.ID, head |-> head, tail |-> segments[length],
        length |-> length, segments |-> segments,
        dist |-> ManDist(head, myHead),
        growing |-> (t < 2 \/ head \in foodLastTurn)]

\* "Enter snake ID into all segment cells" for the snake at registry index sx
WriteSnake(grid, sx, snake) ==
    LET g1 == [c \in DOMAIN grid |->
                  IF c \in Range(snake.segments) THEN BodyCell(sx) ELSE grid[c]]
        g2 == [g1 EXCEPT ![snake.head] = HeadCell(sx)]
    IN [g2 EXCEPT ![snake.tail] = TailCell(sx)]

RECURSIVE WriteSnakes(_, _, _)
WriteSnakes(grid, snakes, i) ==
    IF i > Len(snakes) THEN grid
    ELSE WriteSnakes(WriteSnake(grid, i - 1, snakes[i]), snakes, i + 1)

FoodStateOf(food, myHead, snakes) ==
    LET dist == ManDist(food, myHead)
    IN [pos |-> food, dist |-> dist,
        closerSnakes |-> Cardinality({i \in 1..Len(snakes) :
                                        ManDist(snakes[i].head, food) < dist})]

WriteFood(grid, foods) ==
    [c \in DOMAIN grid |-> IF c \in Range(foods) THEN FoodCell ELSE grid[c]]

\* Initialize(g, t, b, y) reading the context entry `context` (Nil when the
\* cache has no entry for y.ID: context.food then dereferences nil)
Initialize(t, b, y, context) ==
    IF context.nil
    THEN [panic |-> TRUE]
    ELSE LET myHead == y.Body[1]
             foodLastTurn == FoodLastTurn(context)
             snakes == SortByDist([i \in 1..Len(b.Snakes) |->
                          SnakeStateOf(b.Snakes[i], myHead, t, foodLastTurn)])
             foods == Dedup(b.Food)
             grid0 == [c \in Cells(b.Width, b.Height) |-> EmptyCell]
             grid1 == WriteSnakes(grid0, snakes, 1)
         IN [panic |-> FALSE, turn |-> t, h |-> b.Height, w |-> b.Width,
             grid |-> WriteFood(grid1, foods),
             snakes |-> snakes,
             food |-> SortByDist([i \in 1..Len(foods) |->
                          FoodStateOf(foods[i], myHead, snakes)])]

\* ------------------------------------------------------------------------
\* FindMove (src/main.go)
\* ------------------------------------------------------------------------
\* Length of GameState.spaces
SpacesLen == 4

ZeroSpace == [size |-> 0, snakes |-> {}, nsnakes |-> 0, self |-> FALSE, nfood |-> 0]

\* An enumeration that lets every Tail cell through
Blocked_TailsFree(s, n) == IsBody(s, n) \/ IsHead(s, n)

\* A neighbour of our head that the enumeration does not add to moves
Blocked(s, n) ==
    \/ IsBody(s, n)
    \/ IsHead(s, n)
    \/ (IsTail(s, n) /\ s.snakes[SnakeNo(s, n) + 1].growing)

NewMove(n) ==
    [dir |-> n.dir, c |-> n.c, nlonger |-> 0, alternate |-> 0, nshorter |-> 0,
     space |-> 0, smallSpace |-> FALSE]

\* moves after the enumeration of the neighbours of myHead
PossibleMoves(s, myHead) ==
    LET open == SelectSeq(VisitNeighbours(s.w, s.h, myHead),
                          LAMBDA n: ~Blocked(s, n.c))
    IN [i \in 1..Len(open) |-> NewMove(open[i])]

\* What one longer-or-equal head next to move c adds to moves[index].alternate
Alternates(s, head, c) ==
    SumSeq([i \in 1..Len(VisitNeighbours(s.w, s.h, head)) |->
        LET nn == VisitNeighbours(s.w, s.h, head)[i].c
        IN IF nn # c /\ ~IsBody(s, nn) /\ ~IsHead(s, nn)
           THEN 1 + (IF IsFood(s, nn) THEN 4 ELSE 0)
           ELSE 0])

\* nlonger, nshorter and alternate of one move
CheckHeads(s, move, myHead, myLength) ==
    LET heads == SelectSeq(VisitNeighbours(s.w, s.h, move.c),
                           LAMBDA n: IsHead(s, n.c) /\ n.c # myHead)
        longer == SelectSeq(heads, LAMBDA n:
                      s.snakes[SnakeNo(s, n.c) + 1].length >= myLength)
    IN [move EXCEPT
          !.nlonger = Len(longer),
          !.nshorter = Len(heads) - Len(longer),
          !.alternate = SumSeq([i \in 1..Len(longer) |->
                                   Alternates(s, longer[i].c, move.c)])]

\* The loop "Map spaces anchored at each valid adjacent cell".
\* ms = [panic, grid, moves, spaces, nspaces, maxTop]; byIndex says whether
\* the loop stores into moves[index] (main.go) or into the range copy
\* (part_000), which is lost.
RECURSIVE MapMoves(_, _, _, _, _)
MapMoves(w, h, ms, i, byIndex) ==
    IF ms.panic \/ i > Len(ms.moves) THEN ms
    ELSE LET c == ms.moves[i].c
         IN IF ms.grid[c].space > 0
            THEN MapMoves(w, h,
                     [ms EXCEPT !.moves[i].space =
                         IF byIndex THEN ms.grid[c].space ELSE @],
                     i + 1, byIndex)
            ELSE LET n == ms.nspaces + 1
                     r == MapSpace(w, h, ms.grid, c, n)
                 IN IF n >= SpacesLen \/ r.overflow
                    THEN [ms EXCEPT !.panic = TRUE, !.nspaces = n]
                    ELSE MapMoves(w, h,
                            [panic |-> FALSE,
                             grid |-> r.grid,
                             moves |-> [ms.moves EXCEPT ![i].space =
                                           IF byIndex THEN n ELSE @],
                             spaces |-> [ms.spaces EXCEPT ![n] =
                                 [size |-> r.count, snakes |-> r.snakes,
                                  nsnakes |-> Cardinality(r.snakes),
                                  self |-> (Cardinality(r.snakes) = 1 /\ 0 \in r.snakes),
                                  nfood |-> r.nfood]],
                             nspaces |-> n,
                             maxTop |-> IF r.maxTop > ms.maxTop THEN r.maxTop
                                        ELSE ms.maxTop],
                            i + 1, byIndex)

\* The loop that sets moves[index].smallSpace
MarkSmallSpaces(ms, myLength) ==
    [i \in 1..Len(ms.moves) |->
        IF ms.moves[i].nlonger > 0 THEN ms.moves[i]
        ELSE IF ms.spaces[ms.grid[ms.moves[i].c].space].size < myLength
             THEN [ms.moves[i] EXCEPT !.smallSpace = TRUE]
             ELSE ms.moves[i]]

AllSmallSpaces(moves) ==
    \A i \in 1..Len(moves) : moves[i].nlonger > 0 \/ moves[i].smallSpace

AllLongerSnakes(moves) ==
    \A i \in 1..Len(moves) : moves[i].nlonger # 0

\* Index (from 0) of the first move of the largest space
RECURSIVE Largest(_, _, _, _)
Largest(moves, spaces, mx, largest) ==
    IF mx > Len(moves) THEN largest
    ELSE Largest(moves, spaces, mx + 1,
            IF spaces[moves[mx].space].size > spaces[moves[largest + 1].space].size
            THEN mx - 1 ELSE largest)

\* Index (from 0) of the move with fewest longer heads, then most alternates
RECURSIVE Best(_, _, _)
Best(moves, mx, best) ==
    IF mx > Len(moves) THEN best
    ELSE Best(moves, mx + 1,
            IF \/ moves[mx].nlonger < moves[best + 1].nlonger
               \/ (/\ moves[mx].nlonger = moves[best + 1].nlonger
                   /\ moves[mx].alternate > moves[best + 1].alternate)
            THEN mx - 1 ELSE best)

\* The least index of a set of indices (from 1), or 0 for none: where a
\* loop that breaks at its first match stops
First(S) == IF S = {} THEN 0 ELSE CHOOSE i \in S : \A j \in S : i <= j

\* dist of a move in the final loop: progress toward food
FoodProgress(s, c) ==
    LET sentinel == s.h + s.w
        k1 == First({i \in 1..Len(s.food) :
                  /\ ManDist(c, s.food[i].pos) < s.food[i].dist
                  /\ (Len(s.snakes) < 3 \/ s.food[i].closerSnakes = 0)})
        d1 == IF k1 = 0 THEN sentinel ELSE ManDist(c, s.food[k1].pos)
        k2 == First({i \in 1..Len(s.food) : ManDist(c, s.food[i].pos) < s.food[i].dist})
    IN IF d1 = sentinel
       THEN (IF k2 = 0 THEN sentinel ELSE ManDist(c, s.food[k2].pos))
       ELSE d1

\* A final loop in which a later candidate of equal dist replaces the best
RECURSIVE ChooseMove_LastWins(_, _, _, _, _, _)
ChooseMove_LastWins(s, moves, spaces, index, least, leastDist) ==
    IF index > Len(moves)
    THEN (IF least < 0 THEN Panic ELSE moves[least + 1].dir)
    ELSE LET move == moves[index]
         IN IF move.smallSpace
            THEN (IF Len(moves) = 1 THEN move.dir
                  ELSE IF AllSmallSpaces(moves)
                       THEN moves[Largest(moves, spaces, 1, 0) + 1].dir
                       ELSE ChooseMove_LastWins(s, moves, spaces, index + 1, least, leastDist))
            ELSE IF move.nlonger > 0
            THEN (IF Len(moves) = 1 THEN move.dir
                  ELSE IF AllLongerSnakes(moves)
                       THEN moves[Best(moves, 1, 0) + 1].dir
                       ELSE ChooseMove_LastWins(s, moves, spaces, index + 1, least, leastDist))
            ELSE IF IsFood(s, move.c) THEN move.dir
            ELSE IF move.nshorter > 0 THEN move.dir
            ELSE LET dist == FoodProgress(s, move.c)
                 IN IF least < 0 \/ dist <= leastDist
                    THEN ChooseMove_LastWins(s, moves, spaces, index + 1, index - 1, dist)
                    ELSE ChooseMove_LastWins(s, moves, spaces, index + 1, least, leastDist)

\* The loop "Choose the best move" and the return after it.  least is the
\* Go index (-1: none yet); the result is a direction or Panic (moves[-1]).
RECURSIVE ChooseMove(_, _, _, _, _, _)
ChooseMove(s, moves, spaces, index, least, leastDist) ==
    IF index > Len(moves)
    THEN (IF least < 0 THEN Panic ELSE moves[least + 1].dir)
    ELSE LET move == moves[index]
         IN IF move.smallSpace
            THEN (IF Len(moves) = 1 THEN move.dir
                  ELSE IF AllSmallSpaces(moves)
                       THEN moves[Largest(moves, spaces, 1, 0) + 1].dir
                       ELSE ChooseMove(s, moves, spaces, index + 1, least, leastDist))
            ELSE IF move.nlonger > 0
            THEN (IF Len(moves) = 1 THEN move.dir
                  ELSE IF AllLongerSnakes(moves)
                       THEN moves[Best(moves, 1, 0) + 1].dir
                       ELSE ChooseMove(s, moves, spaces, index + 1, least, leastDist))
            ELSE IF IsFood(s, move.c) THEN move.dir
            ELSE IF move.nshorter > 0 THEN move.dir
            ELSE LET dist == FoodProgress(s, move.c)
                 IN IF least < 0 \/ dist < leastDist
                    THEN ChooseMove(s, moves, spaces, index + 1, index - 1, dist)
                    ELSE ChooseMove(s, moves, spaces, index + 1, least, leastDist)

\* An opening move that looks at the y axis first
OpeningMove_YFirst(s, myHead) ==
    IF s.food = <<>> THEN Panic
    ELSE LET cf == s.food[1].pos
         IN IF cf[2] < myHead[2] THEN "up"
            ELSE IF cf[2] > myHead[2] THEN "down"
            ELSE IF cf[1] < myHead[1] THEN "left"
            ELSE "right"

\* The turn-0 special case: toward the closest food
OpeningMove(s, myHead) ==
    IF s.food = <<>> THEN Panic
    ELSE LET cf == s.food[1].pos
         IN IF cf[1] < myHead[1] THEN "left"
            ELSE IF cf[1] > myHead[1] THEN "right"
            ELSE IF cf[2] < myHead[2] THEN "up"
            ELSE "down"

NoRun == [result |-> Panic, stage |-> "initialize", moves |-> <<>>,
          grid |-> <<>>, spaces |-> <<>>, nspaces |-> 0, maxTop |-> 0]

\* FindMove(g, t, b, y): the value returned (a direction, or Panic when the
\* call faults), with the moves, grid and spaces it had built by then
FindMove(t, b, y, context) ==
    LET s == Initialize(t, b, y, context)
    IN IF s.panic THEN NoRun
       ELSE LET myHead == s.snakes[1].head
                myLength == s.snakes[1].length
            IN IF t = 0
               THEN [NoRun EXCEPT !.result = OpeningMove(s, myHead),
                                  !.stage = "opening", !.grid = s.grid]
               ELSE LET moves0 == PossibleMoves(s, myHead)
                        moves1 == [i \in 1..Len(moves0) |->
                                      CheckHeads(s, moves0[i], myHead, myLength)]
                        ms == MapMoves(s.w, s.h,
                                  [panic |-> FALSE, grid |-> s.grid, moves |-> moves1,
                                   spaces |-> [k \in 0..(SpacesLen - 1) |-> ZeroSpace],
                                   nspaces |-> 0, maxTop |-> 0], 1, TRUE)
                    IN IF ms.panic
                       THEN [result |-> Panic, stage |-> "map", moves |-> ms.moves,
                             grid |-> ms.grid, spaces |-> ms.spaces,
                             nspaces |-> ms.nspaces, maxTop |-> ms.maxTop]
                       ELSE LET moves2 == MarkSmallSpaces(ms, myLength)
                                s2 == [s EXCEPT !.grid = ms.grid]
                            IN [result |-> ChooseMove(s2, moves2, ms.spaces, 1, -1,
                                                      s.h + s.w),
                                stage |-> "choose", moves |-> moves2,
                                grid |-> ms.grid, spaces |-> ms.spaces,
                                nspaces |-> ms.nspaces, maxTop |-> ms.maxTop]

\* ------------------------------------------------------------------------
\* Initialize GameState (src/unnamed/part_000)
\* ------------------------------------------------------------------------
FoodStateOf_p0(food, myHead) == [pos |-> food, dist |-> ManDist(food, myHead)]

\* The body of "for sx,snake := range b.Snakes": the registry entry
SnakeStateOf_p0(snake, myHead, t, foodLastTurn) ==
    [ID |-> snake.ID, head |-> snake.Body[1], tail |-> snake.Body[Len(snake.Body)],
     length |-> Len(Dedup(snake.Body)),
     dist |-> ManDist(snake.Body[1], myHead),
     growing |-> (t < 2 \/ snake.Body[1] \in foodLastTurn)]

\* ... and its grid writes, with sx the index in the request's snake list
WriteSnake_p0(grid, sx, snake) ==
    LET g1 == [c \in DOMAIN grid |->
                  IF c \in Range(snake.Body) THEN BodyCell(sx) ELSE grid[c]]
        g2 == [g1 EXCEPT ![snake.Body[1]] = HeadCell(sx)]
    IN [g2 EXCEPT ![snake.Body[Len(snake.Body)]] = TailCell(sx)]

RECURSIVE WriteSnakes_p0(_, _, _)
WriteSnakes_p0(grid, snakes, i) ==
    IF i > Len(snakes) THEN grid
    ELSE WriteSnakes_p0(WriteSnake_p0(grid, i - 1, snakes[i]), snakes, i + 1)

Initialize_p0(t, b, y, context) ==
    IF context.nil
    THEN [panic |-> TRUE]
    ELSE LET myHead == y.Body[1]
             foods == Dedup(b.Food)
             grid0 == [c \in Cells(b.Width, b.Height) |-> EmptyCell]
             grid1 == WriteFood(grid0, foods)
             foodLastTurn == FoodLastTurn(context)
         IN [panic |-> FALSE, turn |-> t, h |-> b.Height, w |-> b.Width,
             grid |-> WriteSnakes_p0(grid1, b.Snakes, 1),
             snakes |-> SortByDist([i \in 1..Len(b.Snakes) |->
                           SnakeStateOf_p0(b.Snakes[i], myHead, t, foodLastTurn)]),
             food |-> SortByDist([i \in 1..Len(foods) |->
                           FoodStateOf_p0(foods[i], myHead)])]

\* ------------------------------------------------------------------------
\* FindMove (src/unnamed/part_000)
\* ------------------------------------------------------------------------
NewMove_p0(n) ==
    [dir |-> n.dir, c |-> n.c, space |-> 0, tooSmall |-> FALSE,
     nlonger |-> 0, nshorter |-> 0]

PossibleMoves_p0(s, myHead) ==
    LET open == SelectSeq(VisitNeighbours(s.w, s.h, myHead),
                          LAMBDA n: ~Blocked(s, n.c))
    IN [i \in 1..Len(open) |-> NewMove_p0(open[i])]

\* nlonger and nshorter of the range copy of one move
CheckHeads_p0(s, move, myHead, myLength) ==
    LET heads == SelectSeq(VisitNeighbours(s.w, s.h, move.c),
                           LAMBDA n: IsHead(s, n.c) /\ n.c # myHead)
        longer == SelectSeq(heads, LAMBDA n:
                      s.snakes[SnakeNo(s, n.c) + 1].length >= myLength)
    IN [move EXCEPT !.nlonger = Len(longer),
                    !.nshorter = Len(heads) - Len(longer)]

\* The loop "Check for adjacent snake heads": it counts on the range copy
\* `move`, so moves[] keeps nlonger = nshorter = 0.  The outcome is an early
\* return (done, with its result) or the value of nopen after the loop.
RECURSIVE AdjacentHeads_p0(_, _, _, _, _, _, _)
AdjacentHeads_p0(s, moves, myHead, myLength, myHealth, i, nopen) ==
    IF i > Len(moves) THEN [done |-> FALSE, result |-> "", nopen |-> nopen]
    ELSE LET move == CheckHeads_p0(s, moves[i], myHead, myLength)
         IN IF move.nlonger > 0
            THEN AdjacentHeads_p0(s, moves, myHead, myLength, myHealth, i + 1, nopen - 1)
            ELSE IF move.nshorter > 0
            THEN (IF s.food = <<>>
                  THEN [done |-> TRUE, result |-> Panic, nopen |-> nopen]
                  ELSE IF myHealth > s.food[1].dist
                       THEN [done |-> TRUE, result |-> move.dir, nopen |-> nopen]
                       ELSE AdjacentHeads_p0(s, moves, myHead, myLength, myHealth,
                                             i + 1, nopen))
            ELSE AdjacentHeads_p0(s, moves, myHead, myLength, myHealth, i + 1, nopen)

\* "case 0" after the head check: least stays 0 (move.nlonger is compared
\* with itself); a food square is swapped for the first square without food
Unsafe_p0(s, moves) ==
    LET nofood == First({i \in 1..Len(moves) : ~IsFood(s, moves[i].c)})
    IN IF Len(moves) > 1 /\ IsFood(s, moves[1].c) /\ nofood # 0
       THEN moves[nofood].dir
       ELSE moves[1].dir

\* The loop "Check for infeasibly small adjacent spaces": nopen after it
\* (tooSmall is set on the range copy only)
RECURSIVE SmallSpaces_p0(_, _, _, _)
SmallSpaces_p0(ms, myLength, i, nopen) ==
    IF i > Len(ms.moves) THEN nopen
    ELSE LET move == ms.moves[i]
             space == ms.spaces[ms.grid[move.c].space]
         IN IF move.nlonger > 0
            THEN SmallSpaces_p0(ms, myLength, i + 1, nopen)
            ELSE IF space.self
            THEN SmallSpaces_p0(ms, myLength, i + 1,
                     IF space.size < (myLength \div 2) - space.nfood
                     THEN nopen - 1 ELSE nopen)
            ELSE SmallSpaces_p0(ms, myLength, i + 1,
                     IF space.size < myLength THEN nopen - 1 ELSE nopen)

\* "case 0" after the space check: index (from 0) of the largest space
\* among the moves, -1 when none
RECURSIVE Most_p0(_, _, _, _)
Most_p0(moves, spaces, index, most) ==
    IF index > Len(moves) THEN most
    ELSE LET move == moves[index]
         IN IF move.nlonger > 0 THEN Most_p0(moves, spaces, index + 1, most)
            ELSE Most_p0(moves, spaces, index + 1,
                    IF most < 0 \/ spaces[move.space].size >
                                   spaces[moves[most + 1].space].size
                    THEN index - 1 ELSE most)

\* "case 1" after either check: the first move that is not excluded
OnlyViable_p0(moves) ==
    LET k == First({i \in 1..Len(moves) :
                     ~(moves[i].nlonger > 0) /\ ~moves[i].tooSmall})
    IN IF k = 0 THEN Panic ELSE moves[k].dir

\* dist of a move in the final loop
FoodProgress_p0(s, c) ==
    LET k == First({i \in 1..Len(s.food) : ManDist(c, s.food[i].pos) < s.food[i].dist})
    IN IF k = 0 THEN s.h + s.w ELSE ManDist(c, s.food[k].pos)

\* The loop "Choose the move that makes best progress toward food"
RECURSIVE ChooseMove_p0(_, _, _, _, _)
ChooseMove_p0(s, moves, index, least, leastDist) ==
    IF index > Len(moves)
    THEN (IF least < 0 THEN Panic ELSE moves[least + 1].dir)
    ELSE LET move == moves[index]
         IN IF move.nlonger > 0 \/ move.tooSmall
            THEN ChooseMove_p0(s, moves, index + 1, least, leastDist)
            ELSE IF IsFood(s, move.c) THEN move.dir
            ELSE LET dist == FoodProgress_p0(s, move.c)
                 IN IF least < 0 \/ dist < leastDist
                    THEN ChooseMove_p0(s, moves, index + 1, index - 1, dist)
                    ELSE ChooseMove_p0(s, moves, index + 1, least, leastDist)

FindMove_p0(t, b, y, context) ==
    LET s == Initialize_p0(t, b, y, context)
    IN IF s.panic THEN NoRun
       ELSE LET myHead == s.snakes[1].head
                myLength == s.snakes[1].length
                moves == PossibleMoves_p0(s, myHead)
                heads == AdjacentHeads_p0(s, moves, myHead, myLength, y.Health,
                                          1, Len(moves))
                ms == MapMoves(s.w, s.h,
                          [panic |-> FALSE, grid |-> s.grid, moves |-> moves,
                           spaces |-> [k \in 0..(SpacesLen - 1) |-> ZeroSpace],
                           nspaces |-> 0, maxTop |-> 0], 1, FALSE)
                nopen == SmallSpaces_p0(ms, myLength, 1, heads.nopen)
                early(r, stage) == [NoRun EXCEPT !.result = r, !.stage = stage,
                                                 !.moves = moves, !.grid = s.grid]
                late(r, stage) == [result |-> r, stage |-> stage, moves |-> ms.moves,
                                   grid |-> ms.grid, spaces |-> ms.spaces,
                                   nspaces |-> ms.nspaces, maxTop |-> ms.maxTop]
            IN IF t = 0
               THEN [NoRun EXCEPT !.result = OpeningMove(s, myHead),
                                  !.stage = "opening", !.grid = s.grid]
               ELSE IF Len(moves) = 0 THEN early("left", "enumerate")
               ELSE IF Len(moves) = 1 THEN early(moves[1].dir, "enumerate")
               ELSE IF heads.done THEN early(heads.result, "heads")
               ELSE IF heads.nopen = 0 THEN early(Unsafe_p0(s, moves), "heads")
               ELSE IF heads.nopen = 1 THEN early(OnlyViable_p0(moves), "heads")
               ELSE IF ms.panic THEN late(Panic, "map")
               ELSE IF nopen = 0
                    THEN late(moves[Most_p0(moves, ms.spaces, 1, -1) + 1].dir, "space")
               ELSE IF nopen = 1 THEN late(OnlyViable_p0(moves), "space")
               ELSE late(ChooseMove_p0([s EXCEPT !.grid = ms.grid], moves, 1, -1,
                                       s.h + s.w), "choose")

\* ------------------------------------------------------------------------
\* Well-formed snapshots within the bounds
\* ------------------------------------------------------------------------
AllCells == Cells(BoardW, BoardH)

\* Snake bodies, head first: self-avoiding paths of n adjacent cells of C
RECURSIVE Paths(_, _)
Paths(C, n) ==
    IF n = 1 THEN {<<c>> : c \in C}
    ELSE UNION {{Append(p, c) : c \in {d \in C : /\ ManDist(d, p[Len(p)]) = 1
                                                  /\ d \notin Range(p)}} :
                p \in Paths(C, n - 1)}

MyID == "me"

EnemyID == "e1"

LowHealth == 1

FullHealth == 100

SnakeOf(id, health, body) == [ID |-> id, Health |-> health, Body |-> body]

\* Turn 0 is the opening position: a snake is coiled on one cell, which its
\* body lists once per segment.  Later it lies on 2..n adjacent cells.
BodiesAt(t, n) ==
    IF t = 0 THEN {[i \in 1..MaxLen |-> c] : c \in AllCells}
    ELSE UNION {Paths(AllCells, k) : k \in 2..n}

\* The snake lists of a board at turn t: our snake alone, or listed after
\* an enemy that shares no cell with it
SnakeLists(health, t) ==
    {<<SnakeOf(MyID, health, a)>> : a \in BodiesAt(t, MaxLen)}
    \cup {<<SnakeOf(EnemyID, FullHealth, ab[2]), SnakeOf(MyID, health, ab[1])>> :
             ab \in {ab \in BodiesAt(t, MaxLen) \X BodiesAt(t, MaxEnemyLen) :
                        Range(ab[1]) \cap Range(ab[2]) = {}}}

\* Turn 0 has the food bound to itself
FoodBound(t) == IF t = 0 THEN MaxFood + 1 ELSE MaxFood

Occupied(snakes) == UNION {Range(snakes[i].Body) : i \in 1..Len(snakes)}

\* Food lists without repetition, on cells no snake occupies
RECURSIVE FoodLists(_, _)
FoodLists(free, n) ==
    IF n = 0 THEN {<<>>}
    ELSE FoodLists(free, n - 1)
         \cup UNION {{Append(f, c) : c \in free \ Range(f)} :
                     f \in {g \in FoodLists(free, n - 1) : Len(g) = n - 1}}

Me(snakes) == CHOOSE sn \in Range(snakes) : sn.ID = MyID

Healths == {LowHealth, FullHealth}

MoveRequest(t, w, h, f, sl, you) ==
    [Turn |-> t,
     Board |-> [Height |-> h, Width |-> w, Food |-> f, Snakes |-> sl],
     You |-> you]

Entry(color, heads, food) ==
    [nil |-> FALSE, color |-> color, heads |-> heads, food |-> food]

\* A sequence listing a set of cells
RECURSIVE SeqOf(_)
SeqOf(S) ==
    IF S = {} THEN <<>>
    ELSE LET c == CHOOSE x \in S : \A y \in S : x[1] < y[1] \/ (x[1] = y[1] /\ x[2] <= y[2])
         IN <<c>> \o SeqOf(S \ {c})

HeadsOf(snakes) == {<<snakes[i].ID, snakes[i].Body[1]>> : i \in 1..Len(snakes)}

\* The context entries a request can meet that differ in what was food last
\* turn on the cells of its snakes' heads
ContextsFor(r) ==
    {Entry("red", HeadsOf(r.Board.Snakes), SeqOf(S)) :
        S \in IF r.Turn < 2 THEN {{}}
              ELSE SUBSET {r.Board.Snakes[i].Body[1] : i \in 1..Len(r.Board.Snakes)}}

\* ------------------------------------------------------------------------
\* State
\* ------------------------------------------------------------------------
VARIABLES
    impl,        \* which iteration of the program runs: "main" or "p0"
    req,         \* the request of the latest move decision
    context,     \* the context entry that decision read
    out,         \* what FindMove returned and had built
    m,           \* gameContext.m: the context entry of each id (Nil: none)
    colorPicker, \* the counter HandleStart picks colors with
    lock,        \* gameContext's RWMutex: read locks never released, and
                 \* whether a writer waits for them
    hist,        \* history: per id, the food list (de-duplicated) of the
                 \* latest request handled for a game that has started
    want,        \* history: hist of its game when the latest move arrived
    prev,        \* history: how the latest move decision compares with the
                 \* one before it
    pc,          \* per handler goroutine: what it still has to do, its
                 \* request, its locals and the lock it holds
    mu,          \* gameContext's RWMutex, when handlers run concurrently
    acc          \* history: the latest access to gameContext.m or to an entry

vars == <<impl, req, context, out, m, colorPicker, lock, hist, want, prev,
          pc, mu, acc>>

server == <<m, colorPicker, lock, hist, want, prev>>

routines == <<pc, mu, acc>>

Idle == [NoRun EXCEPT !.result = "", !.stage = "idle"]

GameIDs == {MyID, "me2"}

NoHist == [known |-> FALSE, food |-> <<>>]

NoPrev == [sameReq |-> FALSE, sameFood |-> FALSE, sameEntry |-> FALSE, result |-> ""]

\* The server before any request: main() makes the empty map
\* The goroutines net/http runs handlers on: two requests at a time
Handlers == {"h1", "h2"}

\* A goroutine whose handler has returned (or has not been given a request)
Returned == [todo |-> <<>>, r |-> Nil, context |-> Nil, holds |-> ""]

NoAccess == [by |-> "", op |-> "", holds |-> ""]

NoServer ==
    /\ m = [id \in GameIDs |-> Nil]
    /\ colorPicker = 0
    /\ lock = [readers |-> 0, waiting |-> FALSE]
    /\ hist = [id \in GameIDs |-> NoHist]
    /\ want = NoHist
    /\ prev = NoPrev
    /\ pc = [h \in Handlers |-> Returned]
    /\ mu = [readers |-> 0, w |-> "free"]
    /\ acc = NoAccess

\* ------------------------------------------------------------------------
\* The move decision alone, over every snapshot within the bounds
\* ------------------------------------------------------------------------
\* req is a well-formed snapshot, with our health hp, and context an entry
\* it can meet
Snapshot(hp) ==
    /\ \E t \in 0..MaxTurn : \E sl \in SnakeLists(hp, t) :
          \E f \in FoodLists(AllCells \ Occupied(sl), FoodBound(t)) :
             req = MoveRequest(t, BoardW, BoardH, f, sl, Me(sl))
    /\ context \in ContextsFor(req)

\* main.go does not read the health of the request
InitMove ==
    /\ impl = "main"
    /\ Snapshot(FullHealth)
    /\ out = Idle
    /\ NoServer

InitMove_p0 ==
    /\ impl = "p0"
    /\ \E hp \in Healths : Snapshot(hp)
    /\ out = Idle
    /\ NoServer

CallFindMove ==
    /\ impl = "main"
    /\ out.stage = "idle"
    /\ out' = FindMove(req.Turn, req.Board, req.You, context)
    /\ UNCHANGED <<impl, req, context, server, routines>>

CallFindMove_p0 ==
    /\ impl = "p0"
    /\ out.stage = "idle"
    /\ out' = FindMove_p0(req.Turn, req.Board, req.You, context)
    /\ UNCHANGED <<impl, req, context, server, routines>>

SpecMove == InitMove /\ [][CallFindMove]_vars

SpecMove_p0 == InitMove_p0 /\ [][CallFindMove_p0]_vars

\* The decision of main.go on requests of either health
InitMove_health ==
    /\ impl = "main"
    /\ \E hp \in Healths : Snapshot(hp)
    /\ out = Idle
    /\ NoServer

SpecMove_health == InitMove_health /\ [][CallFindMove]_vars

\* ------------------------------------------------------------------------
\* The move decision of a long snake: our snake alone, on LongLen cells or
\* more
\* ------------------------------------------------------------------------
LongLen == 6
MaxLongLen == 7

InitLong ==
    /\ impl \in {"main", "p0"}
    /\ \E t \in 1..MaxTurn : \E a \in UNION {Paths(AllCells, n) : n \in LongLen..MaxLongLen} :
          \E f \in FoodLists(AllCells \ Range(a), MaxFood) :
             req = MoveRequest(t, BoardW, BoardH, f,
                               <<SnakeOf(MyID, FullHealth, a)>>,
                               SnakeOf(MyID, FullHealth, a))
    /\ context \in ContextsFor(req)
    /\ out = Idle
    /\ NoServer

SpecLong == InitLong /\ [][CallFindMove \/ CallFindMove_p0]_vars

\* ------------------------------------------------------------------------
\* The move decision on a crowded board: three or five snakes of two cells
\* ------------------------------------------------------------------------
CrowdW == 3
CrowdH == 5
CrowdFood == 2

CrowdCells == Cells(CrowdW, CrowdH)

\* Our snake: head in the middle of the board, tail above it
CrowdBody == <<<<1, 2>>, <<1, 1>>>>

CrowdIDs == <<EnemyID, "e2", "e3", "e4">>

\* Two enemies anywhere on the free cells, listed by head position
CrowdPairs ==
    {pq \in Paths(CrowdCells \ Range(CrowdBody), 2)
              \X Paths(CrowdCells \ Range(CrowdBody), 2) :
        /\ Range(pq[1]) \cap Range(pq[2]) = {}
        /\ \/ pq[1][1][1] < pq[2][1][1]
           \/ (pq[1][1][1] = pq[2][1][1] /\ pq[1][1][2] < pq[2][1][2])}

\* Four enemies, one in each corner of the board, lying along its side
CrowdCorners ==
    {<<a, b, c, d>> : a \in {<<<<0, 1>>, <<0, 0>>>>, <<<<0, 0>>, <<0, 1>>>>},
                      b \in {<<<<2, 1>>, <<2, 0>>>>, <<<<2, 0>>, <<2, 1>>>>},
                      c \in {<<<<0, 3>>, <<0, 4>>>>, <<<<0, 4>>, <<0, 3>>>>},
                      d \in {<<<<2, 3>>, <<2, 4>>>>, <<<<2, 4>>, <<2, 3>>>>}}

\* The snake list of a crowd: the enemies, then our snake
CrowdList(bodies) ==
    [i \in 1..Len(bodies) |-> SnakeOf(CrowdIDs[i], FullHealth, bodies[i])]
        \o <<SnakeOf(MyID, FullHealth, CrowdBody)>>

\* Food lists in one order: up to n free cells
CrowdFoods(free, n) == {SeqOf(S) : S \in {T \in SUBSET free : Cardinality(T) <= n}}

\* A crowd around our snake, with nobody growing
Crowd ==
    /\ \E bodies \in CrowdPairs \cup CrowdCorners :
          \E f \in CrowdFoods(CrowdCells \ Occupied(CrowdList(bodies)), CrowdFood) :
             req = MoveRequest(MaxTurn, CrowdW, CrowdH, f, CrowdList(bodies),
                               SnakeOf(MyID, FullHealth, CrowdBody))
    /\ context = Entry("red", HeadsOf(req.Board.Snakes), <<>>)

InitCrowd ==
    /\ impl = "main"
    /\ Crowd
    /\ out = Idle
    /\ NoServer

InitCrowd_p0 ==
    /\ impl = "p0"
    /\ Crowd
    /\ out = Idle
    /\ NoServer

SpecCrowd == InitCrowd /\ [][CallFindMove]_vars

SpecCrowd_p0 == InitCrowd_p0 /\ [][CallFindMove_p0]_vars

\* Both iterations on the crowded boards
SpecSnakes == (InitCrowd \/ InitCrowd_p0) /\ [][CallFindMove \/ CallFindMove_p0]_vars

\* ------------------------------------------------------------------------
\* The flood fill alone, over every board content and every start cell
\* ------------------------------------------------------------------------
FloodW == 3
FloodH == 2

\* What a cell can hold when MapSpace is called: no cell is tagged yet
FloodContents == {EmptyCell, FoodCell, BodyCell(0), HeadCell(1), TailCell(1)}

InitFlood ==
    /\ impl = "main"
    /\ req = MoveRequest(0, BoardW, BoardH, <<>>, <<>>, SnakeOf(MyID, FullHealth, <<>>))
    /\ context = Nil
    /\ \E w \in 1..FloodW : \E h \in 1..FloodH :
          \E g \in [Cells(w, h) -> FloodContents] : \E c \in Cells(w, h) :
             out = [stage |-> "board", w |-> w, h |-> h, grid |-> g, c |-> c,
                    flood |-> <<>>]
    /\ NoServer

\* s.MapSpace(c, 1) on the board of out
CallMapSpace ==
    /\ out.stage = "board"
    /\ out' = [out EXCEPT !.stage = "mapped",
                          !.flood = MapSpace(out.w, out.h, out.grid, out.c, 1)]
    /\ UNCHANGED <<impl, req, context, server, routines>>

SpecFlood == InitFlood /\ [][CallMapSpace]_vars

\* The decision of main.go on the small boards and on the crowded ones
SpecFood == (InitMove \/ InitCrowd) /\ [][CallFindMove]_vars

\* ------------------------------------------------------------------------
\* The handlers, one request after the other
\* ------------------------------------------------------------------------
\* Bounds of the requests the handlers are given
SrvW == 3
SrvH == 1
SrvLen == 2
SrvFood == 2
MaxStarts == 2
MaxLeaks == 1

SrvCells == Cells(SrvW, SrvH)

\* The names of HandleStart's colors
Colors == <<"red", "blue", "green", "tan", "pink", "yellow", "violet">>

\* Raw food lists of a request: none, or one free cell listed SrvFood times
FoodRepeats(free) ==
    {<<>>} \cup {[i \in 1..SrvFood |-> c] : c \in free}

\* Requests of the game whose snake is id: our snake alone, on one cell at
\* turn 0 and on up to SrvLen cells after it
SrvRequests(id, turns) ==
    UNION {UNION {{MoveRequest(t, SrvW, SrvH, f,
                               <<SnakeOf(id, FullHealth, a)>>,
                               SnakeOf(id, FullHealth, a)) :
                   f \in FoodRepeats(SrvCells \ Range(a))} :
                  a \in IF t = 0 THEN Paths(SrvCells, 1)
                        ELSE UNION {Paths(SrvCells, n) : n \in 2..SrvLen}} :
           t \in turns}

\* What /start and /move are called with
StartRequests == UNION {SrvRequests(id, {0}) : id \in GameIDs}

MoveRequests == UNION {SrvRequests(id, {MaxTurn}) : id \in GameIDs}

Init ==
    /\ impl = "main"
    /\ req = MoveRequest(0, SrvW, SrvH, <<>>, <<>>, SnakeOf(MyID, FullHealth, <<>>))
    /\ context = Nil
    /\ out = Idle
    /\ NoServer

\* UpdateContext(id, s, f) on the entry e = m[id]
UpdateContext(e, s, f) == [e EXCEPT !.heads = HeadsOf(s), !.food = Dedup(f)]

\* HandleStart: pick a color, create the entry under the lock, then
\* UpdateContext.  Lock() never returns while a read lock is held.
HandleStart(id, r) ==
    /\ colorPicker < MaxStarts
    /\ colorPicker' = colorPicker + 1      \* far below the uint32 wrap
    /\ IF lock.readers > 0
       THEN /\ lock' = [lock EXCEPT !.waiting = TRUE]
            /\ UNCHANGED <<m, hist>>
       ELSE /\ m' = [m EXCEPT ![id] =
                       UpdateContext(
                           Entry(Colors[(colorPicker' % Len(Colors)) + 1], {}, <<>>),
                           r.Board.Snakes, r.Board.Food)]
            /\ hist' = [hist EXCEPT ![id] = [known |-> TRUE, food |-> Dedup(r.Board.Food)]]
            /\ UNCHANGED lock
    /\ UNCHANGED <<impl, req, context, out, want, prev, routines>>

\* HandleMove: FindMove (NewLogger reads m[id].color under the read lock and
\* faults on a missing entry before it unlocks), the response, then
\* UpdateContext.  A fault ends the handler where it happens.
HandleMove(id, r) ==
    /\ ~lock.waiting
    /\ m[id].nil => lock.readers < MaxLeaks
    /\ req' = r
    /\ context' = m[id]
    /\ out' = IF m[id].nil THEN [NoRun EXCEPT !.stage = "logger"]
              ELSE FindMove(r.Turn, r.Board, r.You, m[id])
    /\ IF m[id].nil
       THEN /\ lock' = [lock EXCEPT !.readers = @ + 1]
            /\ UNCHANGED m
       ELSE IF out'.result = Panic
       THEN UNCHANGED <<m, lock>>
       ELSE IF lock.readers > 0
       THEN /\ lock' = [lock EXCEPT !.waiting = TRUE]
            /\ UNCHANGED m
       ELSE /\ m' = [m EXCEPT ![id] = UpdateContext(@, r.Board.Snakes, r.Board.Food)]
            /\ UNCHANGED lock
    /\ hist' = [hist EXCEPT ![id] =
                   IF @.known THEN [known |-> TRUE, food |-> Dedup(r.Board.Food)] ELSE @]
    /\ want' = hist[id]
    /\ prev' = IF out.stage # "idle" /\ req = r
               THEN [sameReq |-> TRUE,
                     sameFood |-> (/\ context.nil = m[id].nil
                                   /\ Range(context.food) = Range(m[id].food)),
                     sameEntry |-> (context = m[id]),
                     result |-> out.result]
               ELSE NoPrev
    /\ UNCHANGED <<impl, colorPicker, routines>>

\* HandleEnd: delete the entry under the lock
HandleEnd(id) ==
    /\ IF lock.readers > 0
       THEN /\ lock' = [lock EXCEPT !.waiting = TRUE]
            /\ UNCHANGED <<m, hist>>
       ELSE /\ m' = [m EXCEPT ![id] = Nil]
            /\ hist' = [hist EXCEPT ![id] = NoHist]
            /\ UNCHANGED lock
    /\ UNCHANGED <<impl, colorPicker, req, context, out, want, prev, routines>>

Next ==
    \/ \E r \in StartRequests : HandleStart(r.You.ID, r)
    \/ \E r \in MoveRequests : HandleMove(r.You.ID, r)
    \/ \E id \in GameIDs : HandleEnd(id)

Spec == Init /\ [][Next]_vars

\* ------------------------------------------------------------------------
\* The handlers, two requests at a time: every call on the lock and every
\* access to gameContext.m or to an entry is a step of its own
\* ------------------------------------------------------------------------
\* The requests the concurrent handlers are given: one game, our snake at the
\* left end of the board
RaceRequests(t) == {r \in SrvRequests(MyID, {t}) : r.You.Body[1] = <<0, 0>>}

\* What each function does to gameContext, in program order
NewLoggerOps == <<"RLock", "m[ID].color", "RUnlock">>

InitializeOps == <<"RLock", "m[ID]", "RUnlock", "context.food">>

UpdateContextOps == <<"Lock", "Locked", "m[id].heads,food", "Unlock">>

HandleMoveOps ==
    NewLoggerOps \o NewLoggerOps \o InitializeOps \o <<"FindMove">> \o UpdateContextOps

HandleStartOps == <<"Lock", "Locked", "m[id]=new", "Unlock">> \o UpdateContextOps

HandleEndOps == <<"Lock", "Locked", "delete", "Unlock">>

ReadOps == {"m[ID].color", "m[ID]", "context.food"}

WriteOps == {"m[id]=new", "m[id].heads,food", "delete"}

\* Read locks that no running handler holds any more
Leaked == mu.readers - Cardinality({h \in Handlers : pc[h].holds = "r"})

InitRace ==
    /\ impl = "main"
    /\ req = MoveRequest(0, SrvW, SrvH, <<>>, <<>>, SnakeOf(MyID, FullHealth, <<>>))
    /\ context = Nil
    /\ out = Idle
    /\ NoServer

\* The next operation of handler h is op
At(h, op) == pc[h].todo # <<>> /\ Head(pc[h].todo) = op

\* h has done its operation
Goes(h) == [pc[h] EXCEPT !.todo = Tail(@)]

\* A request arrives and net/http starts its handler.  HandleStart picks its
\* color with an atomic add before it locks.
Begin(h) ==
    /\ pc[h].todo = <<>>
    /\ \/ /\ colorPicker < MaxStarts
          /\ colorPicker' = colorPicker + 1
          /\ \E r \in RaceRequests(0) :
                pc' = [pc EXCEPT ![h] =
                          [todo |-> HandleStartOps, r |-> r, holds |-> "",
                           context |-> Entry(Colors[(colorPicker' % Len(Colors)) + 1],
                                             {}, <<>>)]]
       \/ /\ Leaked < MaxLeaks
          /\ \E r \in RaceRequests(MaxTurn) :
                pc' = [pc EXCEPT ![h] =
                          [todo |-> HandleMoveOps, r |-> r, holds |-> "",
                           context |-> Nil]]
          /\ UNCHANGED colorPicker
       \/ /\ pc' = [pc EXCEPT ![h] =
                       [todo |-> HandleEndOps, r |-> Nil, holds |-> "",
                        context |-> Nil]]
          /\ UNCHANGED colorPicker
    /\ UNCHANGED <<impl, req, context, out, m, lock, hist, want, prev, mu, acc>>

\* sync.RWMutex: RLock waits while a writer holds or has asked for the lock
RLock(h) ==
    /\ At(h, "RLock")
    /\ mu.w = "free"
    /\ mu' = [mu EXCEPT !.readers = @ + 1]
    /\ pc' = [pc EXCEPT ![h] = [Goes(h) EXCEPT !.holds = "r"]]
    /\ UNCHANGED <<impl, req, context, out, server, acc>>

RUnlock(h) ==
    /\ At(h, "RUnlock")
    /\ mu' = [mu EXCEPT !.readers = @ - 1]
    /\ pc' = [pc EXCEPT ![h] = [Goes(h) EXCEPT !.holds = ""]]
    /\ UNCHANGED <<impl, req, context, out, server, acc>>

\* Lock: one writer at a time asks for the lock, which stops new readers ...
Lock(h) ==
    /\ At(h, "Lock")
    /\ mu.w = "free"
    /\ mu' = [mu EXCEPT !.w = "pending"]
    /\ pc' = [pc EXCEPT ![h] = Goes(h)]
    /\ UNCHANGED <<impl, req, context, out, server, acc>>

\* ... and it gets the lock when the last reader has released it
Locked(h) ==
    /\ At(h, "Locked")
    /\ mu.readers = 0
    /\ mu' = [mu EXCEPT !.w = "held"]
    /\ pc' = [pc EXCEPT ![h] = [Goes(h) EXCEPT !.holds = "w"]]
    /\ UNCHANGED <<impl, req, context, out, server, acc>>

Unlock(h) ==
    /\ At(h, "Unlock")
    /\ mu' = [mu EXCEPT !.w = "free"]
    /\ pc' = [pc EXCEPT ![h] = [Goes(h) EXCEPT !.holds = ""]]
    /\ UNCHANGED <<impl, req, context, out, server, acc>>

\* The values a read of context.food can give: the entry is the one the
\* pointer was copied from as long as no HandleStart has replaced it (a new
\* entry has a new color); UpdateContext writes the same object, and a read
\* without the lock can see the food from before or after that write
FoodSeen(h) ==
    {pc[h].context.food}
        \cup (IF ~m[MyID].nil /\ m[MyID].color = pc[h].context.color
              THEN {m[MyID].food} ELSE {})

\* A read of the cache or of an entry.  A nil entry faults, and the fault
\* ends the handler with the locks it holds still held.
Read(h) ==
    /\ pc[h].todo # <<>>
    /\ Head(pc[h].todo) \in ReadOps
    /\ acc' = [by |-> h, op |-> Head(pc[h].todo), holds |-> pc[h].holds]
    /\ \/ /\ At(h, "m[ID].color")
          /\ pc' = [pc EXCEPT ![h] = IF m[MyID].nil THEN Returned ELSE Goes(h)]
       \/ /\ At(h, "m[ID]")
          /\ pc' = [pc EXCEPT ![h] = [Goes(h) EXCEPT !.context = m[MyID]]]
       \/ /\ At(h, "context.food")
          /\ IF pc[h].context.nil
             THEN pc' = [pc EXCEPT ![h] = Returned]
             ELSE \E f \in FoodSeen(h) :
                     pc' = [pc EXCEPT ![h] = [Goes(h) EXCEPT !.context.food = f]]
    /\ UNCHANGED <<impl, req, context, out, server, mu>>

\* The rest of FindMove, on the entry as Initialize has read it
Decide(h) ==
    /\ At(h, "FindMove")
    /\ LET r == pc[h].r
           o == FindMove(r.Turn, r.Board, r.You, pc[h].context)
       IN pc' = [pc EXCEPT ![h] = IF o.result = Panic THEN Returned ELSE Goes(h)]
    /\ UNCHANGED <<impl, req, context, out, server, mu, acc>>

\* A write to the cache or to an entry
Write(h) ==
    /\ pc[h].todo # <<>>
    /\ Head(pc[h].todo) \in WriteOps
    /\ acc' = [by |-> h, op |-> Head(pc[h].todo), holds |-> pc[h].holds]
    /\ \/ /\ At(h, "m[id]=new")
          /\ m' = [m EXCEPT ![MyID] = pc[h].context]
          /\ pc' = [pc EXCEPT ![h] = Goes(h)]
       \/ /\ At(h, "m[id].heads,food")
          /\ IF m[MyID].nil
             THEN /\ pc' = [pc EXCEPT ![h] = Returned]
                  /\ UNCHANGED m
             ELSE /\ m' = [m EXCEPT ![MyID] =
                             UpdateContext(@, pc[h].r.Board.Snakes, pc[h].r.Board.Food)]
                  /\ pc' = [pc EXCEPT ![h] = Goes(h)]
       \/ /\ At(h, "delete")
          /\ m' = [m EXCEPT ![MyID] = Nil]
          /\ pc' = [pc EXCEPT ![h] = Goes(h)]
    /\ UNCHANGED <<impl, req, context, out, colorPicker, lock, hist, want, prev, mu>>

NextRace ==
    \E h \in Handlers :
        \/ Begin(h)
        \/ RLock(h)
        \/ RUnlock(h)
        \/ Lock(h)
        \/ Locked(h)
        \/ Unlock(h)
        \/ Read(h)
        \/ Decide(h)
        \/ Write(h)

SpecRace == InitRace /\ [][NextRace]_vars

\* ------------------------------------------------------------------------
\* The terms of the specification, read off the request and the cache entry
\* ------------------------------------------------------------------------
\* A decision has been made for req under context
Called == out.stage # "idle"

OwnHead == req.You.Body[1]

OwnLength == Cardinality(Range(req.You.Body))

Snk == 1..Len(req.Board.Snakes)

\* The distinct coordinates of snake i, head first
Segs(i) == Dedup(req.Board.Snakes[i].Body)

\* One classification per cell: Tail is written last, Head before it
TailCells == {Segs(i)[Len(Segs(i))] : i \in Snk}

HeadCells == {Segs(i)[1] : i \in Snk} \ TailCells

BodyCells == (UNION {Range(Segs(i)) : i \in Snk}) \ (HeadCells \cup TailCells)

\* Snake i is growing: turn 0 or 1, or its head is on food of the last turn
Grows(i) == req.Turn < 2 \/ Segs(i)[1] \in Range(context.food)

GrowingTails == {Segs(i)[Len(Segs(i))] : i \in {j \in Snk : Grows(j)}}

Step(c, d) ==
    CASE d = "left" -> <<c[1] - 1, c[2]>>
      [] d = "right" -> <<c[1] + 1, c[2]>>
      [] d = "up" -> <<c[1], c[2] - 1>>
      [] d = "down" -> <<c[1], c[2] + 1>>

OnBoard(c) ==
    /\ c[1] \in 0..(req.Board.Width - 1)
    /\ c[2] \in 0..(req.Board.Height - 1)

\* The directions of the legal candidates: in bounds, not a Body cell, not
\* a Head cell, not the Tail of a growing snake
LegalDirs ==
    {d \in Dirs : /\ OnBoard(Step(OwnHead, d))
                  /\ Step(OwnHead, d) \notin BodyCells \cup HeadCells \cup GrowingTails}

\* A candidate next to the Head cell of another snake at least as long as us
Threatened(d) ==
    \E i \in Snk :
        /\ req.Board.Snakes[i].ID # req.You.ID
        /\ Segs(i)[1] \in HeadCells
        /\ Len(Segs(i)) >= OwnLength
        /\ ManDist(Segs(i)[1], Step(OwnHead, d)) = 1

\* The cells that can be walked to from a legal candidate through cells of F
RECURSIVE Grow(_, _)
Grow(R, F) ==
    LET N == {c \in F \ R : \E r \in R : ManDist(c, r) = 1}
    IN IF N = {} THEN R ELSE Grow(R \cup N, F)

BoardCells == Cells(req.Board.Width, req.Board.Height)

Reached(F) == Grow({Step(OwnHead, d) : d \in LegalDirs}, F)

\* The region bookkeeping agrees with reachability through the cells of F
Partitioned(F) ==
    LET R == Reached(F)
    IN /\ \A c \in R : out.grid[c].space \in 1..out.nspaces
       /\ \A c \in BoardCells \ R : out.grid[c].space = 0
       /\ \A c, d \in R : ManDist(c, d) = 1 => out.grid[c].space = out.grid[d].space
       /\ \A k \in 1..out.nspaces :
              out.spaces[k].size =
                  Cardinality({c \in BoardCells : out.grid[c].space = k})
       /\ SumSeq([k \in 1..out.nspaces |-> out.spaces[k].size]) = Cardinality(R)

\* The nearest food of a request with food: least distance from our head,
\* the first such in the request's list
NearestFood ==
    LET f == req.Board.Food
        k == CHOOSE i \in 1..Len(f) :
                 /\ \A j \in 1..Len(f) : ManDist(OwnHead, f[i]) <= ManDist(OwnHead, f[j])
                 /\ \A j \in 1..(i - 1) : ManDist(OwnHead, f[j]) > ManDist(OwnHead, f[i])
    IN f[k]

\* ------------------------------------------------------------------------
\* C1..C10
\* ------------------------------------------------------------------------

\* C1: for every well-formed snapshot (an empty food list and a head with no
\* legal candidate included) the decision ends without a fault and returns
\* one of the four directions.
C1_AlwaysADirection == Called => out.result \in Dirs

\* C2: on every turn >= 1 with at least one legal candidate, a direction
\* that the decision returns leads to a legal candidate: never off the
\* board, into a Body cell, into a Head cell or into the Tail of a growing
\* snake.
C2_ReturnsLegalCandidate ==
    (Called /\ req.Turn >= 1 /\ LegalDirs # {} /\ out.result # Panic)
        => out.result \in LegalDirs

\* C2 happens: two snakes, a growing tail and a legal cell next to our head
C2_Witness ==
    /\ Called
    /\ req.Turn >= 1
    /\ Len(req.Board.Snakes) = 2
    /\ \E d \in Dirs : OnBoard(Step(OwnHead, d)) /\ Step(OwnHead, d) \in GrowingTails
    /\ Cardinality(LegalDirs) >= 2
    /\ out.result \in LegalDirs

\* C3: on every turn >= 1 with exactly one legal candidate the decision
\* returns the direction of that candidate.
C3_SingleCandidateReturned ==
    (Called /\ req.Turn >= 1 /\ Cardinality(LegalDirs) = 1)
        => out.result \in LegalDirs

\* C4: on every turn >= 1 with no legal candidate the decision returns the
\* fixed default direction as a normal result.
C4_DefaultOnNoCandidate ==
    (Called /\ req.Turn >= 1 /\ LegalDirs = {}) => out.result = "left"

\* C5: on every turn >= 1 with two or more legal candidates of which at
\* least one is not threatened, the returned direction is not that of a
\* threatened candidate.
C5_ThreatenedDropped ==
    (/\ Called
     /\ req.Turn >= 1
     /\ Cardinality(LegalDirs) >= 2
     /\ \E d \in LegalDirs : ~Threatened(d))
        => ~(out.result \in LegalDirs /\ Threatened(out.result))

\* C6: on turn 0 with food on the board the returned direction takes the
\* head strictly closer to the nearest food, along the x axis whenever the
\* x coordinates of head and food differ and along the y axis otherwise.
C6_OpeningMoveTowardFood ==
    (Called /\ req.Turn = 0 /\ req.Board.Food # <<>>)
        => /\ out.result \in Dirs
           /\ (out.result \in {"left", "right"}) = (NearestFood[1] # OwnHead[1])
           /\ ManDist(Step(OwnHead, out.result), NearestFood)
                  < ManDist(OwnHead, NearestFood)

\* C6 happens: the nearest food is listed second and is off both axes
C6_Witness ==
    /\ Called
    /\ req.Turn = 0
    /\ Len(req.Board.Food) = 2
    /\ NearestFood = req.Board.Food[2]
    /\ NearestFood # req.Board.Food[1]
    /\ NearestFood[1] # OwnHead[1]
    /\ NearestFood[2] # OwnHead[2]
    /\ out.result \in {"left", "right"}

C9_MissingEntryIsNoData == (Called /\ context.nil) => out.result \in Dirs

\* C10: the food of the last turn that a move's decision reads is the
\* de-duplicated food of the request of that game handled just before it,
\* whatever requests of other games came in between.
C10_FoodOfPrecedingRequest ==
    (Called /\ want.known)
        => /\ ~context.nil
           /\ FoodLastTurn(context) = Range(want.food)

\* ------------------------------------------------------------------------
\* C11: every access to the context cache and to the fields of an entry is
\* made while the lock is held: a read under the read lock or the exclusive
\* lock, a write (create, update, delete) under the exclusive lock.  So no
\* handler reads a field of an entry after it has released the lock.
C11_AccessUnderLock ==
    /\ acc.op \in ReadOps => acc.holds \in {"r", "w"}
    /\ acc.op \in WriteOps => acc.holds = "w"

\* The candidates the decision has kept in moves, and their regions
Cands == 1..Len(out.moves)

RegionOf(i) == out.spaces[out.grid[out.moves[i].c].space]

\* Stage 3 has run: every candidate is mapped and the space test is done
Stage3Done ==
    IF impl = "main" THEN out.stage = "choose" ELSE out.stage \in {"space", "choose"}

\* The mark of Stage 3 on candidate i
Excluded(i) ==
    IF impl = "main" THEN out.moves[i].smallSpace ELSE out.moves[i].tooSmall

\* C12: with an own length of 6, Stage 3 marks as excluded (too small) every
\* non-threatened candidate whose region is self-bounded, has size 1 and
\* holds no food.
C12_TinySelfBoundedExcluded ==
    (Stage3Done /\ OwnLength = LongLen)
        => \A i \in Cands :
              (/\ ~Threatened(out.moves[i].dir)
               /\ RegionOf(i).self
               /\ RegionOf(i).size = 1
               /\ RegionOf(i).nfood = 0) => Excluded(i)

\* The cells the flood fill has tagged
Tagged == {c \in BoardCells : out.grid[c].space # 0}

\* A tail next to a tagged cell carries that cell's tag
TailsFlooded(T) ==
    \A c \in T : \A d \in Tagged : ManDist(c, d) = 1 => out.grid[c].space = out.grid[d].space

TaggedWith(k) == {c \in BoardCells : out.grid[c].space = k}

\* C14: in one move decision at turn >= 1 (an own snake of two cells whose
\* tail is the fourth legal candidate included) at most three regions are
\* created, every region id that tags a cell or indexes the region table
\* lies in 1..3, and the cells of one id form one region.
C14_AtMostThreeRegions ==
    (req.Turn >= 1 /\ out.stage \in {"map", "choose"})
        => /\ out.nspaces <= SpacesLen - 1
           /\ \A c \in BoardCells : out.grid[c].space \in 0..(SpacesLen - 1)
           /\ \A k \in 1..(SpacesLen - 1) :
                 \A c \in TaggedWith(k) : Grow({c}, TaggedWith(k)) = TaggedWith(k)

Enemies == {i \in Snk : req.Board.Snakes[i].ID # req.You.ID}

\* The enemies at least as long as us whose Head cell is next to cell c
Threats(c) ==
    {i \in Enemies : /\ Segs(i)[1] \in HeadCells
                     /\ Len(Segs(i)) >= OwnLength
                     /\ ManDist(Segs(i)[1], c) = 1}

NLonger(d) == Cardinality(Threats(Step(OwnHead, d)))

\* The cells enemy i can move to other than c: next to its head, on the
\* board, neither a Body nor a Head cell
EscapeCells(i, c) ==
    {n \in BoardCells : /\ ManDist(n, Segs(i)[1]) = 1
                        /\ n # c
                        /\ n \notin BodyCells \cup HeadCells}

\* The escape cells of the enemies that threaten the candidate in direction
\* d, counted per enemy
Escapes(d) ==
    SumSeq([i \in Snk |-> IF i \in Threats(Step(OwnHead, d))
                          THEN Cardinality(EscapeCells(i, Step(OwnHead, d)))
                          ELSE 0])

\* The enumeration order of the candidates: left, right, up, down
Rank(d) == CHOOSE k \in 1..4 : <<"left", "right", "up", "down">>[k] = d

\* C15: on a turn >= 1 with two or more legal candidates that are all
\* threatened, the returned candidate has the fewest adjacent longer-or-equal
\* enemy heads; among those it has the most escape cells of its threatening
\* enemies; on a full tie it is the first in enumeration order.
C15_LeastBadThreatened ==
    (/\ Called
     /\ req.Turn >= 1
     /\ Cardinality(LegalDirs) >= 2
     /\ \A d \in LegalDirs : Threatened(d))
        => /\ out.result \in LegalDirs
           /\ \A d \in LegalDirs :
                 \/ NLonger(out.result) < NLonger(d)
                 \/ /\ NLonger(out.result) = NLonger(d)
                    /\ Escapes(out.result) > Escapes(d)
                 \/ /\ NLonger(out.result) = NLonger(d)
                    /\ Escapes(out.result) = Escapes(d)
                    /\ Rank(out.result) <= Rank(d)

\* The space-sufficiency test of Stage 3 on the region of candidate i, as
\* each iteration of the program states it
TooSmall(i) ==
    IF impl = "p0" /\ RegionOf(i).self
    THEN RegionOf(i).size < (OwnLength \div 2) - RegionOf(i).nfood
    ELSE RegionOf(i).size < OwnLength

\* C16: on a turn >= 1 with two or more legal candidates, none of them
\* threatened, all of which fail the space-sufficiency test of Stage 3, the
\* returned candidate is one whose region has the largest cell count among
\* the regions of all candidates.
C16_LargestOfSmallRegions ==
    (/\ Stage3Done
     /\ req.Turn >= 1
     /\ Cardinality(LegalDirs) >= 2
     /\ \A d \in LegalDirs : ~Threatened(d)
     /\ \A i \in Cands : TooSmall(i))
        => \E i \in Cands :
              /\ out.result = out.moves[i].dir
              /\ \A j \in Cands : RegionOf(j).size <= RegionOf(i).size

\* The enemies shorter than us whose Head cell is next to cell c
Prey(c) ==
    {i \in Enemies : /\ Segs(i)[1] \in HeadCells
                     /\ Len(Segs(i)) < OwnLength
                     /\ ManDist(Segs(i)[1], c) = 1}

\* The opportunistic-kill candidates: next to shorter enemy heads only
KillDirs ==
    {d \in LegalDirs : Prey(Step(OwnHead, d)) # {} /\ Threats(Step(OwnHead, d)) = {}}

\* What the final loop of main.go returns when no candidate counts a
\* shorter head
WithoutKill ==
    LET s == Initialize(req.Turn, req.Board, req.You, context)
    IN ChooseMove([s EXCEPT !.grid = out.grid],
                  [i \in Cands |-> [out.moves[i] EXCEPT !.nshorter = 0]],
                  out.spaces, 1, -1, s.h + s.w)

\* C17: with food on the board, an opportunistic-kill candidate is returned
\* at once when our health exceeds the distance from our head to the
\* nearest food; when it does not, the shortcut is not taken: the result is
\* the one the decision gives without it.
C17_KillOnlyWhenHealthy ==
    (/\ impl = "main"
     /\ out.stage = "choose"
     /\ req.Board.Food # <<>>
     /\ KillDirs # {})
        => IF req.You.Health > ManDist(OwnHead, NearestFood)
           THEN out.result \in KillDirs
           ELSE out.result = WithoutKill

\* The candidates that Stages 1-3 leave for the ranking by food
Survivors == {i \in Cands : ~out.moves[i].smallSpace /\ out.moves[i].nlonger = 0}

\* The place of a direction in the enumeration order
DirRank(d) ==
    CASE d = "left" -> 1 [] d = "right" -> 2 [] d = "up" -> 3 [] d = "down" -> 4

\* The food of the set F that is closer from cell c than from our head
Toward(c, F) == {f \in F : ManDist(c, f) < ManDist(OwnHead, f)}

\* The distance from c to the nearest such food, or the board-size sentinel
DistToFood(c, F) ==
    IF Toward(c, F) = {}
    THEN req.Board.Height + req.Board.Width
    ELSE CHOOSE n \in 0..(req.Board.Height + req.Board.Width) :
             /\ \E f \in Toward(c, F) : ManDist(c, f) = n
             /\ \A f \in Toward(c, F) : ManDist(c, f) >= n

\* Candidate i is the first of the least-ranked survivors under dist
BestBy(i, dist(_)) ==
    /\ i \in Survivors
    /\ \A j \in Survivors :
          \/ dist(out.moves[i].c) < dist(out.moves[j].c)
          \/ /\ dist(out.moves[i].c) = dist(out.moves[j].c)
             /\ DirRank(out.moves[i].dir) <= DirRank(out.moves[j].dir)

\* Stage 4 ranks: several survivors, none on food or next to a shorter head
Ranking ==
    /\ impl = "main"
    /\ out.stage = "choose"
    /\ req.Turn >= 1
    /\ Cardinality(Survivors) >= 2
    /\ \A i \in Survivors : /\ out.moves[i].c \notin Range(req.Board.Food)
                            /\ Prey(out.moves[i].c) = {}

\* The 3x3 scenario: own body [(1,1),(1,0)] not growing, food at (0,0)
FoodScenario ==
    /\ req.Board.Width = 3 /\ req.Board.Height = 3
    /\ Len(req.Board.Snakes) = 1
    /\ req.You.Body = <<<<1, 1>>, <<1, 0>>>>
    /\ req.Board.Food = <<<<0, 0>>>>
    /\ req.Turn >= 2
    /\ ~Grows(1)

Uncontested ==
    {f \in Range(req.Board.Food) :
        \A i \in Enemies : ManDist(Segs(i)[1], f) >= ManDist(OwnHead, f)}

\* C19: with three or more snakes, when Stage 4 ranks and some survivor
\* makes progress toward uncontested food, every survivor is ranked by
\* uncontested food only; contested food ranks only when no survivor makes
\* progress toward uncontested food.
C19_UncontestedFoodFirst ==
    (Ranking /\ Len(req.Board.Snakes) >= 3)
        => \E i \in Survivors :
              /\ out.result = out.moves[i].dir
              /\ IF \E j \in Survivors : Toward(out.moves[j].c, Uncontested) # {}
                 THEN BestBy(i, LAMBDA c : DistToFood(c, Uncontested))
                 ELSE BestBy(i, LAMBDA c : DistToFood(c, Range(req.Board.Food)))

\* The snake registry of the snapshot that the decision was taken on
Registry ==
    IF impl = "main"
    THEN Initialize(req.Turn, req.Board, req.You, context).snakes
    ELSE Initialize_p0(req.Turn, req.Board, req.You, context).snakes

\* C20: once the snapshot is built, the snake registry is in ascending
\* order of head distance to our head and its first entry is our own snake.
C20_OwnSnakeFirst ==
    Called => /\ Len(Registry) = Len(req.Board.Snakes)
              /\ \A i, j \in 1..Len(Registry) :
                    i < j => Registry[i].dist <= Registry[j].dist
              /\ Registry[1].ID = req.You.ID
              /\ Registry[1].dist = 0

\* C20 happens: five snakes, our own listed last, and two enemies listed
\* with the farther head first
C20_Witness ==
    /\ Called
    /\ Len(req.Board.Snakes) = 5
    /\ req.Board.Snakes[5].ID = req.You.ID
    /\ \E i, j \in Enemies :
          i < j /\ ManDist(Segs(i)[1], OwnHead) > ManDist(Segs(j)[1], OwnHead)
    /\ Registry[1].ID = req.You.ID

\* The grid of the snapshot that the decision was taken on
BuiltGrid ==
    IF impl = "main"
    THEN Initialize(req.Turn, req.Board, req.You, context).grid
    ELSE Initialize_p0(req.Turn, req.Board, req.You, context).grid

\* The snake of the request whose segments contain cell c
OccupantID(c) ==
    req.Board.Snakes[CHOOSE i \in Snk : c \in Range(req.Board.Snakes[i].Body)].ID

SnakeCells == UNION {Range(req.Board.Snakes[i].Body) : i \in Snk}

\* C21: once the snapshot is built, the index in every Body, Head or Tail
\* cell is the registry index of the snake that occupies the cell, so that
\* index 0 marks exactly the cells of our own snake.
C21_CellIndexIsRegistryIndex ==
    Called =>
        \A c \in SnakeCells :
            /\ CellIsBody(BuiltGrid[c]) \/ CellIsHead(BuiltGrid[c]) \/ CellIsTail(BuiltGrid[c])
            /\ CellSnakeNo(BuiltGrid[c]) + 1 \in 1..Len(Registry)
            /\ Registry[CellSnakeNo(BuiltGrid[c]) + 1].ID = OccupantID(c)
            /\ (CellSnakeNo(BuiltGrid[c]) = 0) = (c \in Range(req.You.Body))

\* The handlers that hold the lock in mode k ("r" or "w")
Holders(k) == {h \in Handlers : pc[h].holds = k}

\* C22: in every interleaving of start, move and end requests every lock
\* that was acquired is held by a handler that is still running and will
\* release it: no read lock and no exclusive lock is left behind by a
\* handler that faulted, so the lock can always be acquired again.
C22_NoLockLeftHeld ==
    /\ mu.readers = Cardinality(Holders("r"))
    /\ mu.w = "held" => Holders("w") # {}

\* The cells of the flooded board that carry a region tag
TaggedCells == {c \in Cells(out.w, out.h) : out.flood.grid[c].space # 0}

\* C23: on every board, whatever the cells hold and wherever the flood
\* starts, the index of the work-list stays below 4*W*H at every push, and
\* the flood fill ends with an empty work-list having tagged every cell at
\* most once: as many cells carry the tag as were counted.
C23_WorkListWithinBounds ==
    out.stage = "mapped"
        => /\ ~out.flood.overflow
           /\ out.flood.maxTop < 4 * out.w * out.h
           /\ out.flood.stack = <<>>
           /\ out.flood.count = Cardinality(TaggedCells)
           /\ \A c \in TaggedCells : out.flood.grid[c].space = 1

\* C23 happens: an open 3x2 board is flooded whole from a cell of its
\* middle column, and the work-list has held five cells at once
C23_Witness ==
    /\ out.stage = "mapped"
    /\ out.w = 3 /\ out.h = 2
    /\ out.c[1] = 1
    /\ out.flood.count = 6
    /\ out.flood.maxTop >= 4

=============================================================================
